---- MODULE Spec2Model ----
(***************************************************************************)
(* Model of src/app.py: the DCA simulation engine (simulate), the strategy *)
(* comparison of run_dca_simulator, and the multi-factor risk scorer       *)
(* (score_* and compute_risk_scores).                                      *)
(*                                                                         *)
(* Number representation.  The program computes in binary floating point.  *)
(* The model computes in exact fixed point: every dollar (and share)       *)
(* quantity is an integer number of 1/unit dollars (shares), where unit is *)
(* fixed per run and chosen so that every division the program performs on *)
(* the enumerated inputs is exact.  Values reported by round(x, 2) are     *)
(* integers of cents (hundredths of a percent for the two percentages),    *)
(* rounded half-to-even as round() does.  Close prices are whole dollars.  *)
(* The input sets below were chosen so that the floating-point program and *)
(* the exact model report the same numbers on every enumerated input.      *)
(***************************************************************************)
EXTENDS Integers, Sequences, FiniteSets

VARIABLES
    pc,             \* control position of the modelled call / run
    outcome,        \* how the call / run ended ("" while running)
    unit,           \* model units per dollar (fixed-point denominator)
    df,             \* price frame: sequence of [Date, Close], ascending dates
    amount,         \* simulate(): amount per buy, in units
    buy_mask,       \* simulate(): buy mask, one BOOLEAN per row of df
    i,              \* simulate(): number of rows the loop has consumed
    acc,            \* simulate(): the loop's locals
    result,         \* simulate(): the returned dict
    invest_amount,  \* run_dca_simulator(): weekly budget, whole dollars
    strategies,     \* run_dca_simulator(): sequence of [name, mask, amount]
    k,              \* run_dca_simulator(): strategies already visited
    results,        \* run_dca_simulator(): sequence of [name, res]
    warnings,       \* run_dca_simulator(): names warned "No buy days"
    best_strategy,  \* run_dca_simulator(): name picked by idxmax
    company,        \* compute_risk_scores(): the input row
    records         \* compute_risk_scores(): the output records

vars == <<pc, outcome, unit, df, amount, buy_mask, i, acc, result,
          invest_amount, strategies, k, results, warnings, best_strategy,
          company, records>>

simVars  == <<amount, buy_mask, i, acc, result>>
runVars  == <<invest_amount, strategies, k, results, warnings, best_strategy>>
riskVars == <<company, records>>

----------------------------------------------------------------------------
(* Bounds of the model *)

MaxLen  == 3     \* rows of the price series handed to simulate()
MaxRows == 3     \* rows of the filtered frame in run_dca_simulator()
MaxDate == 7     \* dates are day numbers 0 .. MaxDate-1; day 0 is a Monday

\* simulate(): closes in dollars, amounts in units of 1/32 dollar
\* (4 = $0.125, 8 = $0.25, 32 = $1.00)
SimCloses  == {1, 2, 4}
SimUnit    == 8 * 4
SimAmounts == {4, 8, 32}

\* run_dca_simulator(): closes in dollars, weekly budget in dollars
RunCloses  == {41, 42}
RunUnit    == 5 * 41 * 42
RunBudgets == {1, 5}

----------------------------------------------------------------------------
(* Arithmetic helpers *)

\* round-half-to-even of the rational n/d (d > 0) to an integer
RoundHalfEven(n, d) ==
    LET q == n \div d
        r == n % d
    IN  IF 2 * r > d THEN q + 1
        ELSE IF 2 * r < d THEN q
        ELSE IF q % 2 = 0 THEN q ELSE q + 1

\* round(x, 2) of a dollar quantity x given in units: the result in cents
Round2(x) == RoundHalfEven(100 * x, unit)

\* round(100 * n / d, 2) of a ratio: the result in hundredths of a percent
RoundPct(n, d) == RoundHalfEven(10000 * n, d)

NaN == [nan |-> TRUE, v |-> 0]

Num(x) == [nan |-> FALSE, v |-> x]

Last(s) == s[Len(s)]

RECURSIVE SeqMax(_, _)
SeqMax(s, t) == IF t = 1 THEN s[1]
                ELSE LET m == SeqMax(s, t - 1) IN IF s[t] > m THEN s[t] ELSE m

----------------------------------------------------------------------------
(* simulate(df, amount, buy_mask)                                          *)

Locals0 == [total_shares |-> 0, total_invested |-> 0,
            portfolio_values |-> <<>>, invested_over_time |-> <<>>]

\* One iteration of "for idx, row in df.iterrows()"
LoopBodyAlwaysBuy(a, row, buy, amt) ==
    LET ts == a.total_shares + (amt \div row.Close)
        ti == a.total_invested + amt
    IN  [total_shares |-> ts, total_invested |-> ti,
         portfolio_values |-> Append(a.portfolio_values, ts * row.Close),
         invested_over_time |-> Append(a.invested_over_time, ti)]

LoopBody(a, row, buy, amt) ==
    LET shares == amt \div row.Close      \* exact on the enumerated inputs
        ts == IF buy THEN a.total_shares + shares ELSE a.total_shares
        ti == IF buy THEN a.total_invested + amt ELSE a.total_invested
        current_value == ts * row.Close
    IN  [total_shares |-> ts, total_invested |-> ti,
         portfolio_values |-> Append(a.portfolio_values, current_value),
         invested_over_time |-> Append(a.invested_over_time, ti)]

\* pd.Series(portfolio_values).cummax()
cummax(pv) == [t \in 1..Len(pv) |-> SeqMax(pv, t)]

\* (pd.Series(portfolio_values) - running_max) / running_max : 0/0 is NaN
drawdowns(pv) ==
    LET running_max == cummax(pv)
    IN  [t \in 1..Len(pv) |->
            [nan |-> running_max[t] = 0,
             num |-> pv[t] - running_max[t],
             den |-> running_max[t]]]

\* Series.min(): NaN entries are skipped; NaN when nothing is left
SeriesMin(dd) ==
    LET valid == {t \in DOMAIN dd : ~dd[t].nan}
    IN  IF valid = {} THEN [nan |-> TRUE, num |-> 0, den |-> 1]
        ELSE LET t == CHOOSE t \in valid : \A u \in valid :
                        dd[t].num * dd[u].den <= dd[u].num * dd[t].den
             IN  dd[t]

\* round(drawdowns.min() * 100, 2)
MaxDrawdown(pv) ==
    LET m == SeriesMin(drawdowns(pv))
    IN  IF m.nan THEN NaN ELSE Num(RoundPct(m.num, m.den))

\* int(buy_mask.sum())
MaskSum(mask) == Cardinality({t \in DOMAIN mask : mask[t]})

\* Lines 33-53: the summary computed after the loop, and the returned dict
Summary(a, mask) ==
    LET pv == a.portfolio_values
        final_value == IF pv # <<>> THEN Last(pv) ELSE 0
        gain == final_value - a.total_invested
        gain_pct == IF a.total_invested # 0
                    THEN RoundPct(gain, a.total_invested) ELSE 0
    IN  [TotalInvested |-> Round2(a.total_invested),
         FinalValue |-> Round2(final_value),
         Gain |-> Round2(gain),
         GainPct |-> gain_pct,
         MaxDrawdown |-> MaxDrawdown(pv),
         BuyCount |-> MaskSum(mask),
         portfolio_series |-> pv,
         invested_series |-> a.invested_over_time]

RECURSIVE Iterate(_, _, _, _)
Iterate(d, amt, mask, n) ==
    IF n = 0 THEN Locals0
    ELSE LoopBody(Iterate(d, amt, mask, n - 1), d[n], mask[n], amt)

\* The whole call, as run_dca_simulator uses it
simulate(d, amt, mask) == Summary(Iterate(d, amt, mask, Len(d)), mask)

----------------------------------------------------------------------------
(* Direct calls of simulate(): the loop runs one row per step              *)

NoResult == [TotalInvested |-> 0, FinalValue |-> 0, Gain |-> 0, GainPct |-> 0,
             MaxDrawdown |-> Num(0), BuyCount |-> 0,
             portfolio_series |-> <<>>, invested_series |-> <<>>]

NoCompany == [PE |-> 0, EPS |-> 0, Beta |-> 0, MarketCap |-> 0,
              Price |-> 0, High52 |-> 0, Low52 |-> 0]

RunIdle == /\ invest_amount = 0 /\ strategies = <<>> /\ k = 0
           /\ results = <<>> /\ warnings = <<>> /\ best_strategy = ""

SimIdle == /\ amount = 0 /\ buy_mask = <<>> /\ i = 0
           /\ acc = Locals0 /\ result = NoResult

RiskIdle == company = NoCompany /\ records = <<>>

InitSim ==
    /\ pc = "loop" /\ outcome = "" /\ unit = SimUnit
    /\ \E n \in 0..MaxLen :
         /\ \E c \in [1..n -> SimCloses] :
              df = [t \in 1..n |-> [Date |-> t - 1, Close |-> c[t]]]
         /\ buy_mask \in [1..n -> BOOLEAN]
    /\ amount \in SimAmounts
    /\ i = 0 /\ acc = Locals0 /\ result = NoResult
    /\ RunIdle /\ RiskIdle

SimIterate ==
    /\ pc = "loop" /\ i < Len(df)
    /\ acc' = LoopBody(acc, df[i + 1], buy_mask[i + 1], amount)
    /\ i' = i + 1
    /\ UNCHANGED <<pc, outcome, unit, df, amount, buy_mask, result>>
    /\ UNCHANGED runVars /\ UNCHANGED riskVars

SimReturn ==
    /\ pc = "loop" /\ i = Len(df)
    /\ result' = Summary(acc, buy_mask)
    /\ pc' = "returned" /\ outcome' = "result"
    /\ UNCHANGED <<unit, df, amount, buy_mask, i, acc>>
    /\ UNCHANGED runVars /\ UNCHANGED riskVars

NextSim == SimIterate \/ SimReturn

SpecSim == InitSim /\ [][NextSim]_vars

----------------------------------------------------------------------------
(* run_dca_simulator(), from the length check of line 99 on.  The frame df *)
(* is the loaded, sorted and date-filtered price series.                   *)

WEEKDAYS == <<"Monday", "Tuesday", "Wednesday", "Thursday", "Friday">>

\* Series.dt.dayofweek: Monday is 0; day number 0 is a Monday
dayofweek(date) == date % 7

\* The t-th smallest element of a set of day numbers
NthDate(D, t) == CHOOSE d \in D : Cardinality({e \in D : e < d}) = t - 1

\* Line 99: "if len(df) < 2"
TooShortOffByOne(d) == Len(d) < 1

TooShort(d) == Len(d) < 2

\* Lines 106-112: the six strategies, in insertion order
BuildStrategies(d, budget) ==
    LET daily_mask == [t \in 1..Len(d) |-> TRUE]
        day_mask(dow) == [t \in 1..Len(d) |-> dayofweek(d[t].Date) = dow]
    IN  <<[name |-> "Daily ($/5 per day)", mask |-> daily_mask,
           amount |-> (budget * unit) \div 5]>>
        \o [n \in 1..Len(WEEKDAYS) |->
              [name |-> "Every " \o WEEKDAYS[n], mask |-> day_mask(n - 1),
               amount |-> budget * unit]]

\* Series.idxmax(): the first position holding the maximum
IdxMax(col) ==
    CHOOSE b \in 1..Len(col) :
        /\ \A j \in 1..Len(col) : col[j] <= col[b]
        /\ \A j \in 1..Len(col) : j < b => col[j] < col[b]

\* Line 133: comparison_df["Gain ($)"].idxmax()
BestStrategy(res) ==
    res[IdxMax([j \in 1..Len(res) |-> res[j].res.Gain])].name

InitRun ==
    /\ pc = "check_len" /\ outcome = "" /\ unit = RunUnit
    /\ \E D \in SUBSET (0..(MaxDate - 1)) :
         /\ Cardinality(D) <= MaxRows
         /\ \E c \in [D -> RunCloses] :
              df = [t \in 1..Cardinality(D) |->
                      [Date |-> NthDate(D, t), Close |-> c[NthDate(D, t)]]]
    /\ invest_amount \in RunBudgets
    /\ strategies = <<>> /\ k = 0 /\ results = <<>> /\ warnings = <<>>
    /\ best_strategy = ""
    /\ SimIdle /\ RiskIdle

\* Lines 99-101
CheckLen ==
    /\ pc = "check_len"
    /\ IF TooShort(df)
       THEN pc' = "stopped" /\ outcome' = "NotEnoughData"
       ELSE pc' = "build" /\ outcome' = outcome
    /\ UNCHANGED <<unit, df>>
    /\ UNCHANGED runVars /\ UNCHANGED simVars /\ UNCHANGED riskVars

\* Lines 106-112
BuildMasks ==
    /\ pc = "build"
    /\ strategies' = BuildStrategies(df, invest_amount)
    /\ pc' = "simulate"
    /\ UNCHANGED <<outcome, unit, df, invest_amount, k, results, warnings,
                   best_strategy>>
    /\ UNCHANGED simVars /\ UNCHANGED riskVars

\* Lines 116-120: one iteration of the loop over strategies.items()
RunStrategy ==
    /\ pc = "simulate" /\ k < Len(strategies)
    /\ LET s == strategies[k + 1]
       IN  IF MaskSum(s.mask) = 0
           THEN /\ warnings' = Append(warnings, s.name)
                /\ results' = results
           ELSE /\ results' = Append(results,
                       [name |-> s.name, res |-> simulate(df, s.amount, s.mask)])
                /\ warnings' = warnings
    /\ k' = k + 1
    /\ UNCHANGED <<pc, outcome, unit, df, invest_amount, strategies,
                   best_strategy>>
    /\ UNCHANGED simVars /\ UNCHANGED riskVars

\* Lines 122-124
CheckResults ==
    /\ pc = "simulate" /\ k = Len(strategies)
    /\ IF results = <<>>
       THEN pc' = "stopped" /\ outcome' = "NoViableStrategy"
       ELSE pc' = "compare" /\ outcome' = outcome
    /\ UNCHANGED <<unit, df>>
    /\ UNCHANGED runVars /\ UNCHANGED simVars /\ UNCHANGED riskVars

\* Lines 128-133
PickBest ==
    /\ pc = "compare"
    /\ best_strategy' = BestStrategy(results)
    /\ pc' = "done" /\ outcome' = "ok"
    /\ UNCHANGED <<unit, df, invest_amount, strategies, k, results, warnings>>
    /\ UNCHANGED simVars /\ UNCHANGED riskVars

NextRun == CheckLen \/ BuildMasks \/ RunStrategy \/ CheckResults \/ PickBest

SpecRun == InitRun /\ [][NextRun]_vars

----------------------------------------------------------------------------
(* The risk scorer.  P/E, EPS and Beta are given in tenths (PE = 150 is a  *)
(* P/E of 15.0), MarketCap in units of 100 million dollars (1000 is        *)
(* 100e9), Price, High52 and Low52 in whole dollars.                       *)

\* Lines 184-197, thresholds 0, 10, 20, 30, 50
score_valuation_incl10(pe) ==
    IF pe <= 0 THEN 0
    ELSE IF pe <= 100 THEN 15
    ELSE IF pe <= 200 THEN 20
    ELSE IF pe <= 300 THEN 15
    ELSE IF pe <= 500 THEN 10
    ELSE 5

score_valuation(pe) ==
    IF pe <= 0 THEN 0
    ELSE IF pe < 100 THEN 15
    ELSE IF pe <= 200 THEN 20
    ELSE IF pe <= 300 THEN 15
    ELSE IF pe <= 500 THEN 10
    ELSE 5

\* Lines 200-211, thresholds 0, 1, 3, 6
score_profitability_zero5(eps) ==
    IF eps < 0 THEN 0
    ELSE IF eps < 10 THEN 5
    ELSE IF eps < 30 THEN 10
    ELSE IF eps < 60 THEN 15
    ELSE 20

score_profitability(eps) ==
    IF eps <= 0 THEN 0
    ELSE IF eps < 10 THEN 5
    ELSE IF eps < 30 THEN 10
    ELSE IF eps < 60 THEN 15
    ELSE 20

\* Lines 214-229, thresholds 0, 0.5, 0.8, 1.0, 1.3, 1.6
score_volatility(beta) ==
    IF beta < 0 THEN 5
    ELSE IF beta <= 5 THEN 20
    ELSE IF beta <= 8 THEN 18
    ELSE IF beta <= 10 THEN 15
    ELSE IF beta <= 13 THEN 12
    ELSE IF beta <= 16 THEN 8
    ELSE 4

\* Lines 232-245, thresholds 200e9, 50e9, 10e9, 2e9, 300e6
score_size_large15(marketcap) ==
    IF marketcap >= 2000 THEN 20
    ELSE IF marketcap >= 500 THEN 15
    ELSE IF marketcap >= 100 THEN 15
    ELSE IF marketcap >= 20 THEN 10
    ELSE IF marketcap >= 3 THEN 5
    ELSE 2

score_size(marketcap) ==
    IF marketcap >= 2000 THEN 20
    ELSE IF marketcap >= 500 THEN 18
    ELSE IF marketcap >= 100 THEN 15
    ELSE IF marketcap >= 20 THEN 10
    ELSE IF marketcap >= 3 THEN 5
    ELSE 2

\* pct >= n/5 for pct = (price - low52) / (high52 - low52), high52 # low52
PctAtLeast(price, high52, low52, n) ==
    IF high52 > low52
    THEN 5 * (price - low52) >= n * (high52 - low52)
    ELSE 5 * (price - low52) <= n * (high52 - low52)

\* Lines 248-263, thresholds 0.8, 0.6, 0.4, 0.2
score_price_strength(price, high52, low52) ==
    IF high52 = low52 THEN 10
    ELSE IF PctAtLeast(price, high52, low52, 4) THEN 20
    ELSE IF PctAtLeast(price, high52, low52, 3) THEN 16
    ELSE IF PctAtLeast(price, high52, low52, 2) THEN 12
    ELSE IF PctAtLeast(price, high52, low52, 1) THEN 8
    ELSE 4

\* Lines 283-290
risk_label_exclusive(composite) ==
    IF composite > 80 THEN "Low Risk"
    ELSE IF composite > 60 THEN "Moderate Risk"
    ELSE IF composite > 40 THEN "Elevated Risk"
    ELSE "High Risk"

risk_label(composite) ==
    IF composite >= 80 THEN "Low Risk"
    ELSE IF composite >= 60 THEN "Moderate Risk"
    ELSE IF composite >= 40 THEN "Elevated Risk"
    ELSE "High Risk"

\* Lines 275-302: the record appended for one row
ScoreRowNoPriceStrength(row) ==
    LET val  == score_valuation(row.PE)
        prof == score_profitability(row.EPS)
        vol  == score_volatility(row.Beta)
        sz   == score_size(row.MarketCap)
        ps   == score_price_strength(row.Price, row.High52, row.Low52)
        composite == val + prof + vol + sz
    IN  [Valuation |-> val, Profitability |-> prof, Volatility |-> vol,
         Size |-> sz, PriceStrength |-> ps, Composite |-> composite,
         RiskRating |-> risk_label(composite)]

ScoreRow(row) ==
    LET val  == score_valuation(row.PE)
        prof == score_profitability(row.EPS)
        vol  == score_volatility(row.Beta)
        sz   == score_size(row.MarketCap)
        ps   == score_price_strength(row.Price, row.High52, row.Low52)
        composite == val + prof + vol + sz + ps
    IN  [Valuation |-> val, Profitability |-> prof, Volatility |-> vol,
         Size |-> sz, PriceStrength |-> ps, Composite |-> composite,
         RiskRating |-> risk_label(composite)]

\* The enumerated company rows: every breakpoint of every table, a value on
\* each side of it, a flat 52-week range and an inverted one
PEValues    == {-50, 0, 50, 99, 100, 150, 200, 201, 300, 301, 500, 501}
EPSValues   == {-10, 0, 5, 10, 30, 40, 60}
BetaValues  == {-1, 5, 8, 9, 10, 13, 16, 17}
CapValues   == {1, 3, 20, 100, 500, 1000, 2000}
PriceRanges == {<<p, 100, 50>> : p \in {45, 55, 60, 70, 80, 90}}
                  \cup {<<50, 50, 50>>, <<60, 50, 100>>}

InitRisk ==
    /\ pc = "score" /\ outcome = "" /\ unit = 1 /\ df = <<>>
    /\ \E pe \in PEValues, eps \in EPSValues, beta \in BetaValues,
          cap \in CapValues, pr \in PriceRanges :
         company = [PE |-> pe, EPS |-> eps, Beta |-> beta, MarketCap |-> cap,
                    Price |-> pr[1], High52 |-> pr[2], Low52 |-> pr[3]]
    /\ records = <<>>
    /\ SimIdle /\ RunIdle

\* compute_risk_scores() on a frame holding the one row `company`
ComputeRiskScores ==
    /\ pc = "score"
    /\ records' = Append(records, ScoreRow(company))
    /\ pc' = "scored" /\ outcome' = "ok"
    /\ UNCHANGED <<unit, df, company>>
    /\ UNCHANGED simVars /\ UNCHANGED runVars

NextRisk == ComputeRiskScores

SpecRisk == InitRisk /\ [][NextRisk]_vars

----------------------------------------------------------------------------
(* The three machines together *)

Init == InitSim \/ InitRun \/ InitRisk

Next == NextSim \/ NextRun \/ NextRisk

Spec == Init /\ [][Next]_vars

----------------------------------------------------------------------------
(* Properties of simulate(), checked under SpecSim                         *)

BuyDays(n) == {t \in 1..n : buy_mask[t]}

\* Sum of amount / close over a set of rows
RECURSIVE SharesBought(_)
SharesBought(S) ==
    IF S = {} THEN 0
    ELSE LET t == CHOOSE t \in S : TRUE
         IN  (amount \div df[t].Close) + SharesBought(S \ {t})

Returned == pc = "returned"

\* C1: throughout the loop the accumulated shares are the sum of
\* amount/close over exactly the buy dates among the rows consumed so far, and
\* on return the final portfolio value (the last recorded value, and its
\* rounded report) is those total shares times the last close.
C1_FinalValueIsSharesTimesLastClose ==
    /\ pc \in {"loop", "returned"} =>
          acc.total_shares = SharesBought(BuyDays(i))
    /\ (Returned /\ Len(df) >= 1) =>
          /\ Last(result.portfolio_series)
                = SharesBought(BuyDays(Len(df))) * Last(df).Close
          /\ result.FinalValue
                = Round2(SharesBought(BuyDays(Len(df))) * Last(df).Close)

\* C1 witness: a returned call on a series with a buy date, a skipped date
\* and two different closes
C1_Witness ==
    /\ Returned /\ Len(df) >= 2
    /\ \E t, u \in 1..Len(df) :
          buy_mask[t] /\ ~buy_mask[u] /\ df[t].Close # df[u].Close
    /\ acc.total_shares > 0

\* C2: the reported gain equals the reported final value minus the reported
\* total invested, exactly (all three in cents, each rounded on its own).
C2_ReportedGainIsFinalMinusInvested ==
    Returned => result.Gain = result.FinalValue - result.TotalInvested

NonDecreasing(s) == \A t \in 1..Len(s) : t > 1 => s[t - 1] <= s[t]

\* C3: on every series of at least one date and every mask, the returned max
\* drawdown is a defined number <= 0, and it is 0 whenever the recorded
\* portfolio values never decrease.
C3_MaxDrawdownDefinedNonPositive ==
    (Returned /\ Len(df) >= 1) =>
        /\ ~result.MaxDrawdown.nan
        /\ result.MaxDrawdown.v <= 0
        /\ NonDecreasing(result.portfolio_series) => result.MaxDrawdown.v = 0

\* C4: a call on a series of zero points fails with EmptySeries and returns no
\* result; a call on a series of one point returns a result whose max
\* drawdown is 0.
C4_EmptySeriesFailsOnePointValid ==
    /\ (pc \in {"loop", "returned"} /\ Len(df) = 0 /\ outcome # "") =>
          outcome = "EmptySeries"
    /\ (Returned /\ Len(df) = 1) => result.MaxDrawdown = Num(0)

----------------------------------------------------------------------------
(* Properties of run_dca_simulator(), checked under SpecRun                *)

Ended == pc \in {"stopped", "done"}

\* final portfolio value minus total invested, unrounded, in units
GainAbs(res) == Last(res.portfolio_series) - Last(res.invested_series)

BestIndex == CHOOSE b \in 1..Len(results) : results[b].name = best_strategy

\* C5: the strategy reported as best has maximal gain_abs (final portfolio
\* value minus total invested) among the simulated strategies, and is the
\* first such strategy in generation order.
C5_BestHasMaximalGainAbs ==
    pc = "done" =>
        /\ \A j \in 1..Len(results) :
              GainAbs(results[j].res) <= GainAbs(results[BestIndex].res)
        /\ \A j \in 1..Len(results) :
              j < BestIndex =>
                 GainAbs(results[j].res) < GainAbs(results[BestIndex].res)

SingleUnmatchedDate == Len(df) = 1 /\ dayofweek(df[1].Date) \notin 0..4

\* C6 as stated: a window of a single date whose weekday matches no weekday
\* strategy ends in NoViableStrategy with all six strategies excluded.
C6_SingleUnmatchedDateIsNoViableStrategy ==
    (Ended /\ SingleUnmatchedDate) =>
        outcome = "NoViableStrategy" /\ Len(warnings) = 6

\* C6 amended: a window of fewer than two dates (a single date of any
\* weekday included) stops at the length check with "Not enough data", before
\* any strategy is generated, excluded or simulated; a window of two or more
\* dates always keeps the Daily strategy and ends with a best strategy; the
\* "No strategies produced results" failure is never reported.
C6_ShortWindowStopsAtLengthCheck ==
    /\ outcome # "NoViableStrategy"
    /\ (Ended /\ Len(df) < 2) =>
          /\ outcome = "NotEnoughData"
          /\ strategies = <<>> /\ warnings = <<>> /\ results = <<>>
    /\ (Ended /\ Len(df) >= 2) =>
          /\ outcome = "ok"
          /\ results # <<>> /\ results[1].name = "Daily ($/5 per day)"

\* C6 witness: a run on a single Saturday or Sunday that has ended
C6_Witness == Ended /\ SingleUnmatchedDate /\ outcome = "NotEnoughData"

----------------------------------------------------------------------------
(* Properties of the risk scorer, checked under SpecRisk                   *)

Scored == pc = "scored"

\* C7: each of the five factor scores is an integer in [0,20], the composite
\* is their sum and lies in [0,100].
C7_FactorsAndCompositeInRange ==
    \A j \in 1..Len(records) :
        LET r == records[j]
        IN  /\ r.Valuation \in 0..20 /\ r.Profitability \in 0..20
            /\ r.Volatility \in 0..20 /\ r.Size \in 0..20
            /\ r.PriceStrength \in 0..20
            /\ r.Composite = r.Valuation + r.Profitability + r.Volatility
                               + r.Size + r.PriceStrength
            /\ r.Composite \in 0..100

\* C7 witness: a scored row whose five factors are all 20
C7_Witness == Scored /\ Len(records) = 1 /\ records[1].Composite = 100

\* PE=15, EPS=4, Beta=0.9, MarketCap=100e9, Price=90, High52=100, Low52=50
Scenario3 == [PE |-> 150, EPS |-> 40, Beta |-> 9, MarketCap |-> 1000,
              Price |-> 90, High52 |-> 100, Low52 |-> 50]

\* C8 as stated: the Scenario 3 row scores Valuation 20, Profitability 15,
\* Volatility 15, Size 15, Price Strength 20, composite 85, "Low Risk".
C8_Scenario3AsStated ==
    (Scored /\ company = Scenario3) =>
        /\ records[1].Valuation = 20 /\ records[1].Profitability = 15
        /\ records[1].Volatility = 15 /\ records[1].Size = 15
        /\ records[1].PriceStrength = 20 /\ records[1].Composite = 85
        /\ records[1].RiskRating = "Low Risk"

\* C8 amended: the Scenario 3 row scores Valuation 20, Profitability 15,
\* Volatility 15, Size 18 (100e9 lies in [50e9, 200e9)), Price Strength 20,
\* composite 88, "Low Risk".
C8_Scenario3Scores ==
    (Scored /\ company = Scenario3) =>
        /\ records[1].Valuation = 20 /\ records[1].Profitability = 15
        /\ records[1].Volatility = 15 /\ records[1].Size = 18
        /\ records[1].PriceStrength = 20 /\ records[1].Composite = 88
        /\ records[1].RiskRating = "Low Risk"

\* C8 witness: the Scenario 3 row has been scored
C8_Witness == Scored /\ company = Scenario3 /\ Len(records) = 1

\* The Valuation row of the table: disjoint intervals of P/E (in tenths)
TableValuation(pe) ==
    CASE pe <= 0                -> 0
      [] pe > 0 /\ pe < 100     -> 15
      [] pe >= 100 /\ pe <= 200 -> 20
      [] pe > 200 /\ pe <= 300  -> 15
      [] pe > 300 /\ pe <= 500  -> 10
      [] pe > 500               -> 5

\* C9: score_valuation returns the tabulated score for every P/E, the
\* breakpoints included: 10 and 20 score 20, 30 scores 15, 50 scores 10.
C9_ValuationMatchesTable ==
    Scored =>
        /\ records[1].Valuation = TableValuation(company.PE)
        /\ company.PE \in {100, 200} => records[1].Valuation = 20
        /\ company.PE = 300 => records[1].Valuation = 15
        /\ company.PE = 500 => records[1].Valuation = 10
        /\ company.PE = 0 => records[1].Valuation = 0

\* C9 witness: a row with P/E exactly 10 has been scored 20
C9_Witness == Scored /\ company.PE = 100 /\ records[1].Valuation = 20

\* C10 as stated: 0 for EPS <= 0; 5 for every EPS in [0,1), 0 included; 10 for
\* [1,3); 15 for [3,6); 20 for EPS >= 6 (EPS in tenths).
C10_ProfitabilityAsStated ==
    Scored =>
        /\ company.EPS <= 0 => records[1].Profitability = 0
        /\ (company.EPS >= 0 /\ company.EPS < 10) => records[1].Profitability = 5
        /\ (company.EPS >= 10 /\ company.EPS < 30) => records[1].Profitability = 10
        /\ (company.EPS >= 30 /\ company.EPS < 60) => records[1].Profitability = 15
        /\ company.EPS >= 60 => records[1].Profitability = 20

\* C10 amended: 0 for EPS <= 0; 5 for every EPS in the open interval (0,1),
\* 0 excluded; 10 for [1,3); 15 for [3,6); 20 for EPS >= 6.
C10_ProfitabilityMatchesTable ==
    Scored =>
        /\ company.EPS <= 0 => records[1].Profitability = 0
        /\ (company.EPS > 0 /\ company.EPS < 10) => records[1].Profitability = 5
        /\ (company.EPS >= 10 /\ company.EPS < 30) => records[1].Profitability = 10
        /\ (company.EPS >= 30 /\ company.EPS < 60) => records[1].Profitability = 15
        /\ company.EPS >= 60 => records[1].Profitability = 20

\* C10 witness: a row with EPS exactly 0 has been scored 0
C10_Witness == Scored /\ company.EPS = 0 /\ records[1].Profitability = 0

RiskLabels == {"Low Risk", "Moderate Risk", "Elevated Risk", "High Risk"}

\* The labels whose stated composite range holds the composite c
LabelsFor(c) ==
    {l \in RiskLabels :
        \/ l = "Low Risk" /\ c >= 80
        \/ l = "Moderate Risk" /\ c >= 60 /\ c <= 79
        \/ l = "Elevated Risk" /\ c >= 40 /\ c <= 59
        \/ l = "High Risk" /\ c <= 39}

\* C11: the risk label of every scored row is fixed by its composite alone,
\* with inclusive lower bounds: >= 80 "Low Risk", 60..79 "Moderate Risk",
\* 40..59 "Elevated Risk", <= 39 "High Risk"; every row gets exactly one of
\* the four labels.
C11_LabelFromCompositeAlone ==
    \A j \in 1..Len(records) :
        /\ records[j].RiskRating \in RiskLabels
        /\ LabelsFor(records[j].Composite) = {records[j].RiskRating}

\* C11 witness: a scored row whose composite is exactly the lower bound 80
\* and is labelled "Low Risk"
C11_Witness ==
    Scored /\ records[1].Composite = 80 /\ records[1].RiskRating = "Low Risk"

\* Reachability of the other composites next to a threshold
C11_Reach79 == Scored /\ records[1].Composite = 79
C11_Reach60 == Scored /\ records[1].Composite = 60
C11_Reach59 == Scored /\ records[1].Composite = 59
C11_Reach40 == Scored /\ records[1].Composite = 40
C11_Reach39 == Scored /\ records[1].Composite = 39

====
